---- MODULE Spec2Model ----
(***************************************************************************)
(* async-scoped: a Scope that lets futures borrowing from the caller's     *)
(* frame run on an executor, and the four usage entry points built on it   *)
(* (src/src/usage.rs): scope, scope_and_block, scope_and_collect and       *)
(* scope_and_iterate.                                                      *)
(*                                                                         *)
(* One caller runs one entry point.  The closure f calls spawn fN times    *)
(* and returns fR; the executor completes the spawned tasks in any order;  *)
(* the entry point then disposes of the Scope.  Tasks are named by their   *)
(* submission index 1..spawned.                                            *)
(*                                                                         *)
(* The Scope type itself (create, spawn, len, its Stream and Drop impls)   *)
(* is not among the source files; it is modelled from the specification    *)
(* (sections 3, 4.2 and 5).                                                *)
(***************************************************************************)
EXTENDS Integers, Sequences, FiniteSets, TLC

\* Largest number of spawn calls a closure makes.
MaxTasks == 3
\* Number of distinct closure return values.
MaxRet == 2
\* Largest number of executor worker threads.
MaxWorkers == 3
\* Largest depth of nested scope_and_block calls.
MaxLevels == 3
MaxCalls == 3

Tasks == 1..MaxTasks
Levels == 1..MaxLevels
RetVals == 1..MaxRet
NoRet == 0

Backends == {"AsyncStd", "Tokio"}
SpawnOps == {"spawn_local", "spawn", "spawn_func"}
\* tokio's RuntimeFlavor is non-exhaustive: the two flavors the adapter names
\* and one it does not.
Flavors == {"CurrentThread", "MultiThread", "MultiThreadAlt"}
EntryPoints == {"scope", "scope_and_block", "scope_and_collect", "scope_and_iterate"}
AsyncEntryPoints == {"scope_and_collect", "scope_and_iterate"}

VARIABLES
    entry,         \* the entry point the caller uses
    fN,            \* number of spawn calls the closure f makes
    fR,            \* the value the closure f returns
    pc,            \* where the caller is
    spawned,       \* number of spawn calls made so far
    completed,     \* tasks the executor has finished, in completion order
    failed,        \* finished tasks that panicked or were cancelled
    stream,        \* the Scope's set of not-yet-retired task handles
    yielded,       \* tasks whose output the result sequence has yielded, in order
    proc_outputs,  \* the Vec the collecting entry points push into
    capacity,      \* Vec::with_capacity(stream.len())
    cbCalls,       \* items the callback g was invoked with, in order
    cbDone,        \* callback futures awaited to completion
    block_output,  \* the closure's return value held by the entry point
    ret,           \* the R handed back to the caller
    retScope,      \* size of the Scope handed back by the raw scope entry point
    dropDrained,   \* handles retired by the blocking drain of an early release
    released,      \* the Scope's storage has been released
    lifetimeEnded, \* the borrowed lifetime 'a is over: the owning frame moved on
    backend,       \* the backend adapter whose handles the Scope holds
    bAdapter,      \* adapters alone: the adapter under call
    bFlavor,       \* the flavor of the Tokio runtime of the calling thread
    bShutdown,     \* the runtime has been shut down
    bCalls,        \* the spawn calls made: [op, handle, st]
    bBlock,        \* the block_on call: idle, driving, returned or panicked
    bDriver,       \* what drives the future given to block_on
    \* Recursive use: the scope_and_block call at level k spawns task k, which
    \* (below the deepest level) itself calls scope_and_block at level k + 1.
    nWorkers,      \* worker threads of the executor
    nLevels,       \* number of nested scope_and_block calls
    npc,           \* where the scope_and_block call at each level is
    ntask,         \* state of the task each level spawns
    nstream,       \* each level's Scope: its not-yet-retired task handles
    nout,          \* each level's proc_outputs
    ncompleted     \* tasks the executor has finished, in completion order

\* State no step of an entry point changes.
xvars == <<lifetimeEnded, backend>>

mvars == <<entry, fN, fR, pc, spawned, completed, failed, stream, yielded,
           proc_outputs, capacity, cbCalls, cbDone, block_output, ret,
           retScope, dropDrained, released, xvars>>

nvars == <<nWorkers, nLevels, npc, ntask, nstream, nout, ncompleted>>

bvars == <<bAdapter, bFlavor, bShutdown, bCalls, bBlock, bDriver>>

vars == <<mvars, nvars, bvars>>

Range(s) == {s[i] : i \in 1..Len(s)}

\* Position of x in sequence s (0 when absent).
IndexOf(s, x) == IF x \in Range(s) THEN CHOOSE i \in 1..Len(s) : s[i] = x ELSE 0

(***************************************************************************)
(* The Scope (modelled from the specification).                            *)
(***************************************************************************)

\* Scope::create(): a new, empty Scope.
create == {}

\* Scope::spawn: registers the handle of task t.
spawn(s, t) == s \cup {t}

\* A sequence that yields an output and keeps its handle.
retire_none(s, t) == s

\* The handle of task t leaves the set when its output is yielded.
retire(s, t) == s \ {t}

\* Scope::len(): current count of not-yet-retired task handles.
len(s) == Cardinality(s)

\* Whether the output of backend b's handles can carry a task's failure:
\* AsyncStd's FutureOutput is the bare T, Tokio's is Result<T, JoinError>.
CanExpressFailure(b) == b = "Tokio"

\* The output a task handle yields: the task and whether it ran to completion.
Item(t) == [task |-> t, ok |-> t \notin failed]

\* Polling the handle of task t panics: the task failed and the handle's output
\* has no value for that.
JoinPanics(t) == t \in failed /\ ~CanExpressFailure(backend)

\* Registered handles whose task has completed (comp: the completion order).
ReadyHandles(s, comp) == {t \in s : t \in Range(comp)}

\* Stream::poll_next of the Scope: end-of-sequence once no handle is left,
\* pending while none of the outstanding handles has completed, otherwise the
\* handle that completed first.
poll_next(s, comp) ==
    IF s = {} THEN [kind |-> "None", task |-> 0]
    ELSE IF ReadyHandles(s, comp) = {} THEN [kind |-> "Pending", task |-> 0]
    ELSE [kind |-> "Some",
          task |-> CHOOSE t \in ReadyHandles(s, comp) :
                      \A u \in ReadyHandles(s, comp) :
                          IndexOf(comp, t) <= IndexOf(comp, u)]

\* A release that never waits for outstanding handles.
DropNeverBlocks(s) == FALSE

\* Drop of the Scope: the release must block while a handle is outstanding.
DropMustBlock(s) == s # {}

(***************************************************************************)
(* The executor: a spawned task runs from the moment it is spawned and     *)
(* finishes at some point, normally or by a panic or cancellation.         *)
(***************************************************************************)

Outstanding == {t \in 1..spawned : t \notin Range(completed)}

TaskComplete(t) ==
    /\ t \in Outstanding
    /\ completed' = Append(completed, t)
    /\ UNCHANGED <<bvars, nvars, xvars, entry, fN, fR, pc, spawned, failed, stream, yielded,
                   proc_outputs, capacity, cbCalls, cbDone, block_output, ret,
                   retScope, dropDrained, released>>

TaskFail(t) ==
    /\ t \in Outstanding
    /\ completed' = Append(completed, t)
    /\ failed' = failed \cup {t}
    /\ UNCHANGED <<bvars, nvars, xvars, entry, fN, fR, pc, spawned, stream, yielded,
                   proc_outputs, capacity, cbCalls, cbDone, block_output, ret,
                   retScope, dropDrained, released>>

(***************************************************************************)
(* The usage entry points (src/src/usage.rs).                              *)
(***************************************************************************)

\* A push that inserts at the front.
push_front(v, item) == <<item>> \o v

\* A push that keeps the Vec in submission order.
push_sorted(v, item) ==
    LET lo == SelectSeq(v, LAMBDA x : x.task < item.task)
        hi == SelectSeq(v, LAMBDA x : x.task >= item.task)
    IN lo \o <<item>> \o hi

\* A Vec that is never pre-sized.
with_capacity_zero(n) == 0

\* Vec::with_capacity(stream.len())
with_capacity(n) == n

\* A closure taken to be finished before it has made its spawn calls.
ClosureReturnsEarly(n) == TRUE

\* f(&mut scope) returns once the closure has made all its n = fN spawn calls.
ClosureFinished(n) == n = fN

\* An entry point that hands back another value than it was given.
ReturnOther(op) == (op % MaxRet) + 1

\* proc_outputs.push(item)
push(v, item) == Append(v, item)

\* `while let Some(item) = next(&mut stream).await`: the loop goes on for an item.
LoopTakes(p) == p.kind = "Some"

\* A loop that is also left when no output is ready yet.
LoopExitsEarly(p) == p.kind # "Some"

\* A loop that never notices end-of-sequence.
LoopExitsNever(p) == FALSE

\* ... and is left at end-of-sequence.
LoopExits(p) == p.kind = "None"

\* A drive that suspends cooperatively in every entry point.
OnPendingSuspend(e) == "suspended"

\* Where the caller waits while no output is ready: scope_and_block stays inside
\* block_on, with its thread blocked; the async entry points suspend at .await.
OnPending(e) == IF e = "scope_and_block" THEN "blocked" ELSE "suspended"

\* A for_each that does not await the callback's future.
AfterItemNoAwait(e) == "drain"

\* What follows taking an item: for_each awaits the callback's future before it
\* takes the next item; the collecting loops go straight on.
AfterItem(e) == IF e = "scope_and_iterate" THEN "callback" ELSE "drain"

\* An entry point that hands back a default value instead of the closure's.
ReturnDefault(op) == NoRet

\* The value the entry point hands back beside the outputs.
ReturnValue(op) == op

\* A future that never owns the Scope (the Scope is leaked when it is dropped).
NotHeldByFuture(p) == FALSE

\* Whether the future of an async entry point owns the Scope at position p: the
\* body has not run before the first poll; afterwards `stream` is a local of it.
HeldByFuture(p) == p # "unpolled"

\* Where a caller is once the Scope's release is over.
AfterRelease == IF entry # "scope" /\ ret # NoRet THEN "returned" ELSE "dropped"

\* First poll of the future of an async entry point: its body starts running.
FirstPoll ==
    /\ entry \in AsyncEntryPoints
    /\ pc = "unpolled"
    /\ pc' = "closure"
    /\ UNCHANGED <<bvars, nvars, xvars, entry, fN, fR, spawned, completed, failed, stream, yielded,
                   proc_outputs, capacity, cbCalls, cbDone, block_output, ret,
                   retScope, dropDrained, released>>

\* The closure f calls scope.spawn(..).
Spawn ==
    /\ pc = "closure"
    /\ spawned < fN
    /\ spawned' = spawned + 1
    /\ stream' = spawn(stream, spawned + 1)
    /\ UNCHANGED <<bvars, nvars, xvars, entry, fN, fR, pc, completed, failed, yielded,
                   proc_outputs, capacity, cbCalls, cbDone, block_output, ret,
                   retScope, dropDrained, released>>

\* The closure returns and scope(f) hands back (scope, op).  The raw entry point
\* returns that pair to the caller; the others start to drive the stream.
ClosureReturn ==
    /\ pc = "closure"
    /\ ClosureFinished(spawned)
    /\ block_output' = fR
    /\ IF entry = "scope"
       THEN /\ pc' = "held"
            /\ ret' = ReturnValue(fR)
            /\ retScope' = len(stream)
            /\ UNCHANGED capacity
       ELSE /\ pc' = "drain"
            /\ capacity' = IF entry = "scope_and_iterate" THEN capacity
                         ELSE with_capacity(len(stream))
            /\ UNCHANGED <<ret, retScope>>
    /\ UNCHANGED <<bvars, nvars, xvars, entry, fN, fR, spawned, completed, failed, stream, yielded,
                   proc_outputs, cbCalls, cbDone, dropDrained, released>>

\* next() yields an item: it is pushed, or passed to the callback g.  Where the
\* poll of the handle panics instead, the panic leaves the drive; what the
\* unwinding does to the Scope is not modelled.
DrainItem ==
    /\ pc = "drain"
    /\ LoopTakes(poll_next(stream, completed))
    /\ LET t == poll_next(stream, completed).task IN
        IF JoinPanics(t)
        THEN /\ pc' = "panicked"
             /\ UNCHANGED <<stream, yielded, proc_outputs, cbCalls>>
        ELSE /\ stream' = retire(stream, t)
             /\ yielded' = Append(yielded, t)
             /\ IF entry = "scope_and_iterate"
                THEN /\ cbCalls' = Append(cbCalls, Item(t))
                     /\ UNCHANGED proc_outputs
                ELSE /\ proc_outputs' = push(proc_outputs, Item(t))
                     /\ UNCHANGED cbCalls
             /\ pc' = AfterItem(entry)
    /\ UNCHANGED <<bvars, nvars, xvars, entry, fN, fR, spawned, completed, failed, capacity, cbDone,
                   block_output, ret, retScope, dropDrained, released>>

\* next() is pending: no outstanding task has completed.
DrainPending ==
    /\ pc = "drain"
    /\ ~LoopTakes(poll_next(stream, completed))
    /\ ~LoopExits(poll_next(stream, completed))
    /\ pc' = OnPending(entry)
    /\ UNCHANGED <<bvars, nvars, xvars, entry, fN, fR, spawned, completed, failed, stream, yielded,
                   proc_outputs, capacity, cbCalls, cbDone, block_output, ret,
                   retScope, dropDrained, released>>

\* A completed task wakes the waiting drive, which polls again.
Wake ==
    /\ pc \in {"blocked", "suspended"}
    /\ ReadyHandles(stream, completed) # {}
    /\ pc' = "drain"
    /\ UNCHANGED <<bvars, nvars, xvars, entry, fN, fR, spawned, completed, failed, stream, yielded,
                   proc_outputs, capacity, cbCalls, cbDone, block_output, ret,
                   retScope, dropDrained, released>>

\* The future returned by g completes.
CallbackDone ==
    /\ pc = "callback"
    /\ cbDone' = cbDone + 1
    /\ pc' = "drain"
    /\ UNCHANGED <<bvars, nvars, xvars, entry, fN, fR, spawned, completed, failed, stream, yielded,
                   proc_outputs, capacity, cbCalls, block_output, ret,
                   retScope, dropDrained, released>>

\* next() yields end-of-sequence: the entry point returns, and its local Scope is
\* released on the way out.
DrainEnd ==
    /\ pc = "drain"
    /\ ~LoopTakes(poll_next(stream, completed))
    /\ LoopExits(poll_next(stream, completed))
    /\ ret' = ReturnValue(block_output)
    /\ IF DropMustBlock(stream)
       THEN pc' = "dropping" /\ UNCHANGED released
       ELSE pc' = "returned" /\ released' = TRUE
    /\ UNCHANGED <<bvars, nvars, xvars, entry, fN, fR, spawned, completed, failed, stream, yielded,
                   proc_outputs, capacity, cbCalls, cbDone, block_output,
                   retScope, dropDrained>>

\* The caller drops the future of an async entry point where it is not running:
\* before its first poll, or suspended at an .await.
DropFuture ==
    /\ entry \in AsyncEntryPoints
    /\ pc \in {"unpolled", "suspended", "callback"}
    /\ IF HeldByFuture(pc)
       THEN IF DropMustBlock(stream)
            THEN pc' = "dropping" /\ UNCHANGED released
            ELSE pc' = "dropped" /\ released' = TRUE
       ELSE pc' = "dropped" /\ UNCHANGED released
    /\ UNCHANGED <<bvars, nvars, xvars, entry, fN, fR, spawned, completed, failed, stream, yielded,
                   proc_outputs, capacity, cbCalls, cbDone, block_output, ret,
                   retScope, dropDrained>>

\* The caller of the raw entry point polls the Scope it was handed.
HeldNext ==
    /\ pc = "held"
    /\ poll_next(stream, completed).kind = "Some"
    /\ LET t == poll_next(stream, completed).task IN
        IF JoinPanics(t)
        THEN pc' = "panicked" /\ UNCHANGED <<stream, yielded>>
        ELSE /\ stream' = retire(stream, t)
             /\ yielded' = Append(yielded, t)
             /\ UNCHANGED pc
    /\ UNCHANGED <<bvars, nvars, xvars, entry, fN, fR, spawned, completed, failed,
                   proc_outputs, capacity, cbCalls, cbDone, block_output, ret,
                   retScope, dropDrained, released>>

\* The caller of the raw entry point drops the Scope.
HeldDrop ==
    /\ pc = "held"
    /\ IF DropMustBlock(stream)
       THEN pc' = "dropping" /\ UNCHANGED released
       ELSE pc' = "dropped" /\ released' = TRUE
    /\ UNCHANGED <<bvars, nvars, xvars, entry, fN, fR, spawned, completed, failed, stream, yielded,
                   proc_outputs, capacity, cbCalls, cbDone, block_output, ret,
                   retScope, dropDrained>>

\* The blocking drain of an early release retires one completed handle.
DropDrainItem ==
    /\ pc = "dropping"
    /\ poll_next(stream, completed).kind = "Some"
    /\ LET t == poll_next(stream, completed).task IN
        IF JoinPanics(t)
        THEN pc' = "panicked" /\ UNCHANGED <<stream, dropDrained>>
        ELSE /\ stream' = retire(stream, t)
             /\ dropDrained' = dropDrained \cup {t}
             /\ UNCHANGED pc
    /\ UNCHANGED <<bvars, nvars, xvars, entry, fN, fR, spawned, completed, failed, yielded,
                   proc_outputs, capacity, cbCalls, cbDone, block_output, ret,
                   retScope, released>>

\* The blocking drain is over: the Scope's storage is released.
DropDrainEnd ==
    /\ pc = "dropping"
    /\ ~DropMustBlock(stream)
    /\ released' = TRUE
    /\ pc' = AfterRelease
    /\ UNCHANGED <<bvars, nvars, xvars, entry, fN, fR, spawned, completed, failed, stream, yielded,
                   proc_outputs, capacity, cbCalls, cbDone, block_output, ret,
                   retScope, dropDrained>>

\* The caller leaks the future of an async entry point (mem::forget, a cycle of
\* reference counts): it is never polled again and never dropped.
ForgetFuture ==
    /\ entry \in AsyncEntryPoints
    /\ pc \in {"unpolled", "suspended", "callback"}
    /\ pc' = "forgotten"
    /\ UNCHANGED <<bvars, nvars, xvars, entry, fN, fR, spawned, completed, failed, stream,
                   yielded, proc_outputs, capacity, cbCalls, cbDone, block_output,
                   ret, retScope, dropDrained, released>>

\* The owning frame moves on and the data borrowed for 'a is invalidated.  The
\* borrow checker allows it once no value of a type carrying 'a is live: the
\* entry point returned, or its future or Scope was dropped or leaked.
LifetimeEnd ==
    /\ pc \in {"returned", "dropped", "forgotten"}
    /\ ~lifetimeEnded
    /\ lifetimeEnded' = TRUE
    /\ UNCHANGED <<bvars, nvars, backend, entry, fN, fR, pc, spawned, completed, failed, stream,
                   yielded, proc_outputs, capacity, cbCalls, cbDone, block_output,
                   ret, retScope, dropDrained, released>>

(***************************************************************************)
(* Recursive use of scope_and_block.  The call at level 1 is made on the   *)
(* caller's own thread; task k runs on an executor worker thread and, for  *)
(* k < nLevels, calls scope_and_block at level k + 1 there; the task the   *)
(* deepest level spawns is trivial.  scope_and_block drives its stream     *)
(* with async_std::task::block_on, which keeps the calling thread.         *)
(***************************************************************************)

\* Worker threads held by tasks: a task keeps its thread while it runs, the
\* time it spends blocked in a nested scope_and_block included.
Busy == Cardinality({k \in Levels : ntask[k] = "running"})

\* The executor gives a spawned task a worker thread when one is idle.
NStart(k) ==
    /\ k <= nLevels
    /\ ntask[k] = "queued"
    /\ Busy < nWorkers
    /\ ntask' = [ntask EXCEPT ![k] = "running"]
    /\ npc' = IF k < nLevels THEN [npc EXCEPT ![k + 1] = "closure"] ELSE npc
    /\ UNCHANGED <<bvars, mvars, nWorkers, nLevels, nstream, nout, ncompleted>>

\* Task k finishes: at once when trivial, else when its scope_and_block returned.
NFinish(k) ==
    /\ k <= nLevels
    /\ ntask[k] = "running"
    /\ k < nLevels => npc[k + 1] = "returned"
    /\ ntask' = [ntask EXCEPT ![k] = "done"]
    /\ ncompleted' = Append(ncompleted, k)
    /\ UNCHANGED <<bvars, mvars, nWorkers, nLevels, npc, nstream, nout>>

\* The closure of level k spawns task k.
NSpawn(k) ==
    /\ npc[k] = "closure"
    /\ ntask[k] = "none"
    /\ ntask' = [ntask EXCEPT ![k] = "queued"]
    /\ nstream' = [nstream EXCEPT ![k] = spawn(nstream[k], k)]
    /\ UNCHANGED <<bvars, mvars, nWorkers, nLevels, npc, nout, ncompleted>>

\* The closure of level k returns; the drive starts.
NClosureReturn(k) ==
    /\ npc[k] = "closure"
    /\ ntask[k] # "none"
    /\ npc' = [npc EXCEPT ![k] = "drain"]
    /\ UNCHANGED <<bvars, mvars, nWorkers, nLevels, ntask, nstream, nout, ncompleted>>

NDrainItem(k) ==
    /\ npc[k] = "drain"
    /\ LoopTakes(poll_next(nstream[k], ncompleted))
    /\ LET t == poll_next(nstream[k], ncompleted).task IN
        /\ nstream' = [nstream EXCEPT ![k] = nstream[k] \ {t}]
        /\ nout' = [nout EXCEPT ![k] = push(nout[k], t)]
    /\ UNCHANGED <<bvars, mvars, nWorkers, nLevels, npc, ntask, ncompleted>>

NDrainPending(k) ==
    /\ npc[k] = "drain"
    /\ ~LoopTakes(poll_next(nstream[k], ncompleted))
    /\ ~LoopExits(poll_next(nstream[k], ncompleted))
    /\ npc' = [npc EXCEPT ![k] = OnPending("scope_and_block")]
    /\ UNCHANGED <<bvars, mvars, nWorkers, nLevels, ntask, nstream, nout, ncompleted>>

NWake(k) ==
    /\ npc[k] = "blocked"
    /\ ReadyHandles(nstream[k], ncompleted) # {}
    /\ npc' = [npc EXCEPT ![k] = "drain"]
    /\ UNCHANGED <<bvars, mvars, nWorkers, nLevels, ntask, nstream, nout, ncompleted>>

NDrainEnd(k) ==
    /\ npc[k] = "drain"
    /\ ~LoopTakes(poll_next(nstream[k], ncompleted))
    /\ LoopExits(poll_next(nstream[k], ncompleted))
    /\ npc' = [npc EXCEPT ![k] = "returned"]
    /\ UNCHANGED <<bvars, mvars, nWorkers, nLevels, ntask, nstream, nout, ncompleted>>

\* The nested scenario at rest, with level 1 not yet called.

(***************************************************************************)
(* The backend adapters on their own: spawn_local, spawn, spawn_func and   *)
(* block_on of AsyncStd and Tokio, called by a thread inside the backend's *)
(* runtime, and the executor behind the handles they return.               *)
(***************************************************************************)

\* spawn_local implemented by every adapter.
SpawnLocalEverywhere(b) == TRUE

\* AsyncStd::spawn_local is unimplemented!(); Tokio's calls tokio's spawn_local.
SpawnLocalImplemented(b) == b = "Tokio"

\* Whether adapter b's call of op returns a handle (otherwise the call panics).
ReturnsHandle(b, op) == op = "spawn_local" => SpawnLocalImplemented(b)

\* What drives the future given to block_on: async-std's block_on runs it on
\* the calling thread; Tokio's matches on the runtime's flavor.
Driver(b, fl) ==
    IF b = "AsyncStd" THEN "caller"
    ELSE CASE fl = "CurrentThread" -> "current"
           [] fl = "MultiThread" -> "private"
           [] OTHER -> "todo"

\* What a handle's future resolves to.  "Err" is Tokio's JoinError; a handle
\* whose output is the bare T resolves only to the task's value.
Output(b, st) ==
    CASE st = "done" -> IF CanExpressFailure(b) THEN "Ok" ELSE "Value"
      [] st = "cancelled" -> IF CanExpressFailure(b) THEN "Err" ELSE "Nothing"
      [] OTHER -> "Pending"

\* What a spawn_func handle has to say that its callable was never run.
OutputIfNeverRun(b) == Output(b, "cancelled")

BCall(op) ==
    /\ Len(bCalls) < MaxCalls
    /\ bCalls' = Append(bCalls,
          IF ReturnsHandle(bAdapter, op)
          THEN [op |-> op, handle |-> TRUE,
                st |-> IF bShutdown THEN "cancelled" ELSE "queued"]
          ELSE [op |-> op, handle |-> FALSE, st |-> "none"])
    /\ UNCHANGED <<mvars, nvars, bAdapter, bFlavor, bShutdown, bBlock, bDriver>>

BSpawnLocal == BCall("spawn_local")

BSpawn == BCall("spawn")

BSpawnFunc == BCall("spawn_func")

\* The executor starts a queued task or callable.
BRun(i) ==
    /\ i \in 1..Len(bCalls)
    /\ bCalls[i].st = "queued"
    /\ bCalls' = [bCalls EXCEPT ![i].st = "running"]
    /\ UNCHANGED <<mvars, nvars, bAdapter, bFlavor, bShutdown, bBlock, bDriver>>

BFinish(i) ==
    /\ i \in 1..Len(bCalls)
    /\ bCalls[i].st = "running"
    /\ bCalls' = [bCalls EXCEPT ![i].st = "done"]
    /\ UNCHANGED <<mvars, nvars, bAdapter, bFlavor, bShutdown, bBlock, bDriver>>

\* The Tokio runtime is shut down: what has not run is cancelled, a future is
\* dropped where it is, a callable that is running runs to its end.  async-std's
\* executor lives as long as the process.
BShutdown ==
    /\ bAdapter = "Tokio"
    /\ ~bShutdown
    /\ bBlock # "driving"
    /\ bShutdown' = TRUE
    /\ bCalls' = [i \in 1..Len(bCalls) |->
          IF \/ bCalls[i].st = "queued"
             \/ (bCalls[i].st = "running" /\ bCalls[i].op # "spawn_func")
          THEN [bCalls[i] EXCEPT !.st = "cancelled"]
          ELSE bCalls[i]]
    /\ UNCHANGED <<mvars, nvars, bAdapter, bFlavor, bBlock, bDriver>>

BBlockOn ==
    /\ bBlock = "idle"
    /\ ~bShutdown
    /\ bDriver' = Driver(bAdapter, bFlavor)
    /\ bBlock' = IF Driver(bAdapter, bFlavor) = "todo" THEN "panicked" ELSE "driving"
    /\ UNCHANGED <<mvars, nvars, bAdapter, bFlavor, bShutdown, bCalls>>

BBlockReturn ==
    /\ bBlock = "driving"
    /\ bBlock' = "returned"
    /\ UNCHANGED <<mvars, nvars, bAdapter, bFlavor, bShutdown, bCalls, bDriver>>

BRest ==
    /\ bAdapter = "AsyncStd"
    /\ bFlavor = "MultiThread"
    /\ bShutdown = FALSE
    /\ bCalls = <<>>
    /\ bBlock = "idle"
    /\ bDriver = "none"

NRest ==
    /\ npc = [k \in Levels |-> "idle"]
    /\ ntask = [k \in Levels |-> "none"]
    /\ nstream = [k \in Levels |-> create]
    /\ nout = [k \in Levels |-> <<>>]
    /\ ncompleted = <<>>

Init ==
    /\ entry \in EntryPoints
    /\ fN \in 0..MaxTasks
    /\ fR \in RetVals
    /\ pc = IF entry \in AsyncEntryPoints THEN "unpolled" ELSE "closure"
    /\ spawned = 0
    /\ completed = <<>>
    /\ failed = {}
    /\ stream = create
    /\ yielded = <<>>
    /\ proc_outputs = <<>>
    /\ capacity = 0
    /\ cbCalls = <<>>
    /\ cbDone = 0
    /\ block_output = NoRet
    /\ ret = NoRet
    /\ retScope = 0
    /\ dropDrained = {}
    /\ released = FALSE
    /\ lifetimeEnded = FALSE
    /\ backend \in Backends
    /\ nWorkers = 1
    /\ nLevels = 1
    /\ NRest
    /\ BRest

TaskStep == \E t \in Tasks : TaskComplete(t) \/ TaskFail(t)

Next ==
    \/ FirstPoll
    \/ Spawn
    \/ ClosureReturn
    \/ DrainItem
    \/ DrainPending
    \/ Wake
    \/ CallbackDone
    \/ DrainEnd
    \/ DropFuture
    \/ HeldNext
    \/ HeldDrop
    \/ DropDrainItem
    \/ DropDrainEnd
    \/ ForgetFuture
    \/ LifetimeEnd
    \/ TaskStep

Spec == Init /\ [][Next]_vars

\* The executor runs every spawned task to its end, and a caller that does not
\* drop the future keeps driving it.
FairSpec ==
    /\ Spec
    /\ WF_vars(TaskStep)
    /\ WF_vars(FirstPoll)
    /\ WF_vars(Spawn)
    /\ WF_vars(ClosureReturn)
    /\ WF_vars(DrainItem)
    /\ WF_vars(DrainPending)
    /\ WF_vars(Wake)
    /\ WF_vars(CallbackDone)
    /\ WF_vars(DrainEnd)
    /\ WF_vars(DropDrainItem)
    /\ WF_vars(DropDrainEnd)

\* Recursive use: scope_and_block is called at level 1 by a caller that runs no
\* other entry point.
NestedInit ==
    /\ entry = "scope_and_block"
    /\ fN = 0
    /\ fR = 1
    /\ pc = "returned"
    /\ spawned = 0
    /\ completed = <<>>
    /\ failed = {}
    /\ stream = create
    /\ yielded = <<>>
    /\ proc_outputs = <<>>
    /\ capacity = 0
    /\ cbCalls = <<>>
    /\ cbDone = 0
    /\ block_output = 1
    /\ ret = 1
    /\ retScope = 0
    /\ dropDrained = {}
    /\ released = TRUE
    /\ lifetimeEnded = FALSE
    /\ backend = "AsyncStd"
    /\ nWorkers \in 1..MaxWorkers
    /\ nLevels \in 1..MaxLevels
    /\ npc = [k \in Levels |-> IF k = 1 THEN "closure" ELSE "idle"]
    /\ ntask = [k \in Levels |-> "none"]
    /\ nstream = [k \in Levels |-> create]
    /\ nout = [k \in Levels |-> <<>>]
    /\ ncompleted = <<>>
    /\ BRest

NestedNext ==
    \E k \in Levels :
        \/ NStart(k)
        \/ NFinish(k)
        \/ NSpawn(k)
        \/ NClosureReturn(k)
        \/ NDrainItem(k)
        \/ NDrainPending(k)
        \/ NWake(k)
        \/ NDrainEnd(k)

NestedSpec == NestedInit /\ [][NestedNext]_vars

NestedFairSpec == NestedSpec /\ WF_vars(NestedNext)

\* The adapters alone: no entry point runs.
BackendInit ==
    /\ entry = "scope"
    /\ fN = 0
    /\ fR = 1
    /\ pc = "returned"
    /\ spawned = 0
    /\ completed = <<>>
    /\ failed = {}
    /\ stream = create
    /\ yielded = <<>>
    /\ proc_outputs = <<>>
    /\ capacity = 0
    /\ cbCalls = <<>>
    /\ cbDone = 0
    /\ block_output = NoRet
    /\ ret = 1
    /\ retScope = 0
    /\ dropDrained = {}
    /\ released = FALSE
    /\ lifetimeEnded = FALSE
    /\ backend \in Backends
    /\ nWorkers = 1
    /\ nLevels = 1
    /\ NRest
    /\ bAdapter = backend
    /\ bFlavor \in Flavors
    /\ bShutdown = FALSE
    /\ bCalls = <<>>
    /\ bBlock = "idle"
    /\ bDriver = "none"

BackendNext ==
    \/ BSpawnLocal
    \/ BSpawn
    \/ BSpawnFunc
    \/ \E i \in 1..MaxCalls : BRun(i)
    \/ \E i \in 1..MaxCalls : BFinish(i)
    \/ BShutdown
    \/ BBlockOn
    \/ BBlockReturn

BackendSpec == BackendInit /\ [][BackendNext]_vars

\* The executor runs what it has accepted, and a driven future comes to its end.
BackendFairSpec ==
    /\ BackendSpec
    /\ \A i \in 1..MaxCalls : WF_vars(BRun(i)) /\ WF_vars(BFinish(i))
    /\ WF_vars(BBlockReturn)

(***************************************************************************)
(* Properties.                                                             *)
(***************************************************************************)

TasksOf(v) == [i \in 1..Len(v) |-> v[i].task]

\* The tasks of sequence s appear in the order in which they completed.
InCompletionOrder(s) ==
    \A i, j \in 1..Len(s) :
        i < j => /\ IndexOf(completed, s[i]) > 0
                 /\ IndexOf(completed, s[i]) < IndexOf(completed, s[j])

\* Every element carries its task's own outcome.
Tagged(v) == \A i \in 1..Len(v) : v[i].ok = (v[i].task \notin failed)

\* C1: the Scope's storage is released, and a drop of the Scope returns, only
\* once no task handle is outstanding: every spawned task has completed and its
\* handle was retired by the result sequence or by the blocking drain.
C1_ReleaseAfterRetire ==
    (released \/ (pc = "dropped" /\ spawned > 0)) =>
        /\ stream = {}
        /\ \A t \in 1..spawned :
              /\ t \in Range(completed)
              /\ t \in Range(yielded) \/ t \in dropDrained

C1_Witness ==
    /\ entry = "scope"
    /\ pc = "dropped"
    /\ released
    /\ Len(yielded) = 1
    /\ Cardinality(dropDrained) >= 1

\* C2: scope_and_block returns a Vec of exactly fN elements, one per spawned
\* task, each tagged with its task's outcome, whatever the completion order.
C2_BlockCollectsAll ==
    (entry = "scope_and_block" /\ pc = "returned") =>
        /\ Len(proc_outputs) = fN
        /\ Range(TasksOf(proc_outputs)) = 1..fN
        /\ Tagged(proc_outputs)

C2_Witness ==
    /\ entry = "scope_and_block"
    /\ pc = "returned"
    /\ Len(proc_outputs) >= 3
    /\ proc_outputs[1].task = 3
    /\ ~proc_outputs[2].ok

\* C3: scope_and_block never leaves the caller at a suspension point, and when
\* it returns every spawned task has completed.  (It is left without a return
\* where the poll of a handle panics.)
C3_BlockedUntilDone ==
    entry = "scope_and_block" =>
        /\ pc \in {"closure", "drain", "blocked", "dropping", "returned", "panicked"}
        /\ pc = "returned" => (spawned = fN /\ Outstanding = {})

C3_Witness ==
    /\ entry = "scope_and_block"
    /\ pc = "returned"
    /\ spawned >= 2
    /\ completed[1] = 2

\* C4: under fair scheduling the drive of scope_and_block, scope_and_collect
\* and scope_and_iterate ends: the entry point returns, unless its caller drops
\* the future, and then that drop returns, or leaks it.  A task that panicked
\* on a backend whose handles cannot say so is outside the claim's premise (it
\* neither completed nor was cancelled): the drive then ends by that panic.
C4_DrainTerminates ==
    (entry # "scope") =>
        <>(pc = "returned" \/ pc = "dropped" \/ pc = "forgotten" \/ pc = "panicked")

C4_Witness ==
    /\ entry = "scope_and_collect"
    /\ pc = "returned"
    /\ Len(proc_outputs) >= 2
    /\ failed # {}

\* C5: with a closure that spawns nothing no entry point ever waits, the
\* outputs stay empty, the callback is never invoked and the closure's return
\* value is handed back.
C5_ZeroTasks ==
    fN = 0 =>
        /\ pc \notin {"blocked", "suspended", "callback", "dropping"}
        /\ proc_outputs = <<>> /\ cbCalls = <<>> /\ yielded = <<>>
        /\ pc \in {"returned", "held"} => ret = fR
        /\ pc = "held" => retScope = 0

C5_Witness ==
    /\ fN = 0
    /\ pc = "returned"
    /\ entry = "scope_and_iterate"
    /\ ret = fR

\* C6: outputs are yielded, collected and passed to the callback in completion
\* order, and no output is yielded while a task that completed earlier is
\* still registered.
C6_CompletionOrder ==
    /\ InCompletionOrder(yielded)
    /\ InCompletionOrder(TasksOf(proc_outputs))
    /\ InCompletionOrder(TasksOf(cbCalls))
    /\ \A y \in Range(yielded) : \A x \in stream :
          ~(IndexOf(completed, x) > 0 /\ IndexOf(completed, x) < IndexOf(completed, y))

C6_Witness ==
    /\ pc = "returned"
    /\ completed = <<3, 1, 2>>
    /\ TasksOf(proc_outputs) = <<3, 1, 2>>

\* C7: when a task spawned later completes before one spawned earlier, its
\* output comes first in the collected Vec and in the callback's invocations.
C7_LaterSpawnedMayComeFirst ==
    \A v \in {TasksOf(proc_outputs), TasksOf(cbCalls)} :
        \A i, j \in 1..Len(v) :
            (v[i] < v[j] /\ IndexOf(completed, v[j]) < IndexOf(completed, v[i]))
                => j < i

C7_Witness ==
    /\ entry = "scope_and_block"
    /\ pc = "returned"
    /\ fN = 2
    /\ TasksOf(proc_outputs) = <<2, 1>>

\* C8: in the recursive scenario of one outer and one inner scope_and_block,
\* the calls never come to a standstill before the outer one has returned.
C8_NestedNoDeadlock ==
    nLevels = 2 => (npc[1] = "returned" \/ ENABLED NestedNext)

\* C8, as progress: under fair scheduling the inner drive, the outer task and
\* the outer scope_and_block all complete.
C8_NestedCompletes ==
    nLevels = 2 => <>(npc[2] = "returned" /\ ntask[1] = "done" /\ npc[1] = "returned")

\* With a second worker thread the scenario of C8 does complete.
C8_TwoWorkersComplete ==
    (nLevels = 2 /\ nWorkers >= 2) =>
        <>(npc[2] = "returned" /\ ntask[1] = "done" /\ npc[1] = "returned")

\* C9: scope_and_iterate passes every yielded output to g, in completion
\* order, awaits each callback future before it takes the next output, and
\* returns the closure's value only after the sequence is exhausted, having
\* invoked g once per spawned task.
C9_IterateCallbacks ==
    entry = "scope_and_iterate" =>
        /\ TasksOf(cbCalls) = yielded
        /\ InCompletionOrder(TasksOf(cbCalls))
        /\ Tagged(cbCalls)
        /\ proc_outputs = <<>>
        /\ pc = "callback" => Len(cbCalls) = cbDone + 1
        /\ pc \in {"drain", "suspended", "returned"} => Len(cbCalls) = cbDone
        /\ ret # NoRet => (stream = {} /\ cbDone = fN /\ ret = fR)
        /\ pc = "returned" =>
              /\ Len(cbCalls) = fN
              /\ Range(TasksOf(cbCalls)) = 1..fN
              /\ ret # NoRet

C9_Witness ==
    /\ entry = "scope_and_iterate"
    /\ pc = "returned"
    /\ cbDone >= 3
    /\ cbCalls[1].task = 2

\* C10: once the drop of the future of scope_and_collect or scope_and_iterate
\* has returned, no spawned task is still running and no handle is registered.
C10_DropFutureBlocks ==
    (entry \in AsyncEntryPoints /\ pc = "dropped") =>
        /\ Outstanding = {}
        /\ stream = {}

C10_Witness ==
    /\ entry \in AsyncEntryPoints
    /\ pc = "dropped"
    /\ Cardinality(dropDrained) >= 2
    /\ Len(yielded) >= 1

\* C11: the borrowed lifetime ends while a task registered in the Scope is still
\* outstanding only when the caller of scope_and_collect or scope_and_iterate
\* gave up the future without running it to completion and without dropping it;
\* a returned entry point and a dropped future or Scope never leave one behind.
C11_OnlyAbandonedFutureViolates ==
    (lifetimeEnded /\ (Outstanding # {} \/ stream # {})) =>
        (entry \in AsyncEntryPoints /\ pc = "forgotten")

C11_Witness ==
    /\ entry \in AsyncEntryPoints
    /\ pc = "forgotten"
    /\ lifetimeEnded
    /\ Cardinality(stream \cap Outstanding) >= 2
    /\ Len(yielded) >= 1

\* What an entry point has delivered: the callback's items or the Vec.
Delivered == IF entry = "scope_and_iterate" THEN cbCalls ELSE proc_outputs

\* C12 as claimed: on every backend the drive never panics, and a returned entry
\* point has delivered one element per task, failed tasks as tagged elements.
C12_NeverAggregateFailure ==
    /\ pc # "panicked"
    /\ (entry # "scope" /\ pc = "returned") =>
          /\ Range(TasksOf(Delivered)) = 1..fN
          /\ Tagged(Delivered)

\* C12, amended: on the Tokio adapter, whose handle output is a Result, the
\* drive never panics and a returned entry point has delivered one element per
\* task, the failed ones as failure-tagged elements, the others untouched; on
\* the AsyncStd adapter a drive panics only on the handle of a failed task.
C12_FailuresAreElementsOnTokio ==
    /\ backend = "Tokio" =>
          /\ pc # "panicked"
          /\ (entry # "scope" /\ pc = "returned") =>
                /\ Len(Delivered) = fN
                /\ Range(TasksOf(Delivered)) = 1..fN
                /\ Tagged(Delivered)
    /\ pc = "panicked" => (backend = "AsyncStd" /\ stream \cap failed # {})

C12_Witness ==
    /\ backend = "Tokio"
    /\ entry = "scope_and_collect"
    /\ pc = "returned"
    /\ Len(proc_outputs) = 3
    /\ Cardinality(failed) = 2

\* The spawn_func calls that returned a handle.
FuncHandles == {i \in 1..Len(bCalls) : bCalls[i].op = "spawn_func" /\ bCalls[i].handle}

C13_TokioNeverRunIsErr ==
    bAdapter = "Tokio" =>
        \A i \in FuncHandles :
            (bShutdown /\ bCalls[i].st # "done" /\ bCalls[i].st # "running") =>
                Output(bAdapter, bCalls[i].st) = "Err"

\* C14: Tokio's block_on never panics whatever the runtime's flavor; under
\* MultiThread the future is driven by a private current-thread runtime, under
\* CurrentThread by the current runtime.
C14_BlockOnEveryFlavor ==
    bAdapter = "Tokio" =>
        /\ bBlock # "panicked"
        /\ bBlock \in {"driving", "returned"} =>
              /\ bFlavor = "MultiThread" => bDriver = "private"
              /\ bFlavor = "CurrentThread" => bDriver = "current"

\* The part of C14 that holds: the two flavors the adapter names, and a panic
\* only under another flavor.
C14_NamedFlavors ==
    bAdapter = "Tokio" =>
        /\ bBlock = "panicked" => bFlavor \notin {"CurrentThread", "MultiThread"}
        /\ bBlock \in {"driving", "returned"} =>
              /\ bFlavor \in {"CurrentThread", "MultiThread"}
              /\ bFlavor = "MultiThread" => bDriver = "private"
              /\ bFlavor = "CurrentThread" => bDriver = "current"

C19_TokioWitness ==
    /\ bAdapter = "Tokio"
    /\ bShutdown
    /\ Len(bCalls) = 3
    /\ \E i, j, k \in 1..3 :
          /\ bCalls[i].op = "spawn_local" /\ bCalls[i].st = "cancelled"
          /\ bCalls[j].op = "spawn" /\ bCalls[j].st = "done"
          /\ bCalls[k].op = "spawn_func" /\ bCalls[k].st = "running"

\* The entry points that collect the outputs into a Vec.
Collecting == {"scope_and_block", "scope_and_collect"}

\* C15: len() is the number of spawn calls less the number of outputs the
\* sequence has yielded (to a drain loop, to the holder of the raw Scope or to
\* the Scope's drop), and the capacity the Vec was given after the closure is
\* the number of elements a collecting entry point returns.
C15_LenIsSpawnedLessYielded ==
    /\ len(stream) = spawned - Len(yielded) - Cardinality(dropDrained)
    /\ (entry \in Collecting /\ pc \in {"drain", "blocked", "suspended"}) =>
          capacity = len(stream) + Len(proc_outputs)
    /\ (entry \in Collecting /\ pc = "returned") => capacity = Len(proc_outputs)

C15_Witness ==
    /\ entry = "scope_and_collect"
    /\ pc = "returned"
    /\ capacity = 3
    /\ Len(proc_outputs) = 3
    /\ len(stream) = 0

\* C16: an output is yielded for a completed task only, its handle then leaves
\* the set, no task is yielded twice, at most one output per spawn call is
\* yielded, on the empty set a poll yields end-of-sequence, and once the drive
\* has found the set empty it stays empty.
C16_EachTaskOnce ==
    /\ [](/\ Range(yielded) \cap stream = {}
          /\ Range(yielded) \cap dropDrained = {}
          /\ \A i, j \in 1..Len(yielded) : yielded[i] = yielded[j] => i = j
          /\ Range(yielded) \subseteq Range(completed)
          /\ dropDrained \subseteq Range(completed)
          /\ Len(yielded) + Cardinality(dropDrained) <= spawned
          /\ stream = {} => poll_next(stream, completed).kind = "None")
    /\ [][(stream = {} /\ pc \notin {"unpolled", "closure"}) => stream' = {}]_vars
    /\ [][\A i \in 1..Len(yielded) : Len(yielded') >= i /\ yielded'[i] = yielded[i]]_vars

C16_Witness ==
    /\ entry = "scope_and_collect"
    /\ pc = "returned"
    /\ stream = {}
    /\ Len(yielded) = 3
    /\ yielded # <<1, 2, 3>>
    /\ failed # {}

\* C17: the closure runs once, on a Scope created empty, and has made all its
\* spawn calls before anything is taken from the sequence; no spawn call
\* happens after the closure, and the raw scope returns the Scope with every
\* spawned handle registered.  (The future of an async entry point that is
\* dropped or leaked before its first poll has not run the closure at all.)
C17_ClosureBeforeDrive ==
    /\ [](/\ pc = "unpolled" => (stream = create /\ spawned = 0)
          /\ pc \in {"unpolled", "closure"} =>
                (stream = 1..spawned /\ yielded = <<>> /\ dropDrained = {})
          /\ pc \in {"drain", "blocked", "suspended", "callback", "held",
                    "returned", "panicked"} => spawned = fN
          /\ pc \in {"dropping", "dropped", "forgotten"} =>
                (spawned = fN \/ (spawned = 0 /\ stream = create /\ yielded = <<>>))
          /\ (entry = "scope" /\ pc # "closure") => retScope = fN)
    /\ [][spawned' # spawned => (pc = "closure" /\ pc' = "closure")]_vars
    /\ [][pc' = "closure" => pc \in {"unpolled", "closure"}]_vars

C17_Witness ==
    /\ entry = "scope"
    /\ pc = "held"
    /\ retScope = 3
    /\ stream = {1, 2, 3}
    /\ yielded = <<>>
    /\ Len(completed) = 3

\* C18: the value an entry point returns is the value the closure returned,
\* whatever the tasks did, and nothing changes it afterwards.
C18_ReturnValueUnchanged ==
    /\ ret # NoRet => ret = fR
    /\ block_output # NoRet => block_output = fR
    /\ pc = "returned" => ret = fR
    /\ (entry = "scope" /\ pc \in {"held", "dropping", "dropped"}) => ret = fR

C18_Witness ==
    /\ entry = "scope_and_iterate"
    /\ pc = "returned"
    /\ fR = 2
    /\ ret = 2
    /\ fN = 3
    /\ failed # {}
    /\ completed # <<1, 2, 3>>

====
